---- MODULE Spec2Model ----
(***************************************************************************)
(* A model of the in-memory HNSW index (class HNSW) together with its      *)
(* JSON snapshot / restore.  Numbers are IEEE doubles in the program; the  *)
(* model works on integer-valued doubles, for which every sum, difference  *)
(* and product it needs is exact.  A similarity score is represented by an *)
(* integer that orders pairs of vectors exactly as the program's floating  *)
(* point score does on the vectors of the model (see Sim).                 *)
(***************************************************************************)
EXTENDS Integers, Sequences, FiniteSets, TLC

(***************************************************************************)
(* Bounds of the model.                                                    *)
(***************************************************************************)
MaxNodes == 3
MaxM == 2
MaxEf == 3
MaxEfSearch == 3
MaxLevel == 1
MaxK == 2
MaxBuild == 2
MaxInterval == 2
MaxProbs == 3
DbMaxNodes == 2
MaxCandidates == 3
MaxOrderNodes == 5
MaxLayerNodes == 4
MaxPushes == 5

(***************************************************************************)
(* Program constants.  null (of d, and of a field a snapshot lacks) is     *)
(* written 0, which is the length of no vector of the model.               *)
(***************************************************************************)
Null == 0
NoEntry == -1
EmptyLevel == -1
DefaultEfSearch == 50
DefaultProgressInterval == 10000
ProbUnit == 20
ProbResolution == 1000000000
Metrics == {"cosine", "euclidean"}

(***************************************************************************)
(* Numbers.  Every integer below 2^24 is a float32; from 2^24 to 2^25 only *)
(* the even ones are, and Float32Array stores the nearest one, a tie going *)
(* to the even mantissa.                                                   *)
(***************************************************************************)
F32Exact == 2^24

Fround(x) ==
  IF x < F32Exact THEN x
  ELSE IF x % 2 = 0 THEN x
  ELSE IF ((x - 1) \div 2) % 2 = 0 THEN x - 1 ELSE x + 1

ToFloat32Array(v) == [i \in 1..Len(v) |-> Fround(v[i])]

(***************************************************************************)
(* Vectors offered by callers.  Under the euclidean metric they lie in the *)
(* binade [2^24, 2^25) so that some are float32 values and some are not;   *)
(* differences of their components are small, so squared distances are     *)
(* exact.  Under cosine they are small and pairwise non-parallel.          *)
(***************************************************************************)
EVecs == { <<F32Exact, F32Exact>>, <<F32Exact + 2, F32Exact + 1>>,
           <<F32Exact + 1, F32Exact + 2>> }
CVecs == { <<1, 0>>, <<2, 1>>, <<1, 2>> }
EShort == <<F32Exact + 1>>
CShort == <<1>>

Vecs(met) == IF met = "euclidean" THEN EVecs ELSE CVecs
ShortVec(met) == IF met = "euclidean" THEN EShort ELSE CShort
Queries(met) ==
  IF met = "euclidean"
    THEN { <<F32Exact + 1, F32Exact + 2>>, <<F32Exact + 2, F32Exact>> }
    ELSE { <<1, 2>>, <<2, 0>> }

(***************************************************************************)
(* Similarity.                                                             *)
(***************************************************************************)
RECURSIVE dotFrom(_, _, _)
dotFrom(a, b, i) ==
  IF i > Len(a) THEN 0 ELSE a[i] * b[i] + dotFrom(a, b, i + 1)

dotProduct(a, b) == dotFrom(a, b, 1)

RECURSIVE sqDistFrom(_, _, _)
sqDistFrom(a, b, i) ==
  IF i > Len(a) THEN 0
  ELSE (a[i] - b[i]) * (a[i] - b[i]) + sqDistFrom(a, b, i + 1)

CosScale == 64 * 64

\* dot / (|a| |b|), as the order-equivalent sign(dot) * dot^2 / (|a|^2 |b|^2)
\* scaled to an integer; distinct values of the model's vectors stay distinct.
cosineRatio(dp, aa, bb) ==
  IF dp < 0 THEN 0 - ((dp * dp * CosScale) \div (aa * bb))
  ELSE (dp * dp * CosScale) \div (aa * bb)

cosineSimilarity(a, b) ==
  cosineRatio(dotProduct(a, b), dotProduct(a, a), dotProduct(b, b))

\* 1 / (1 + sqrt(sum)), as the order-equivalent -sum.
euclideanSimilarity(a, b) == 0 - sqDistFrom(a, b, 1)

Sim(met, a, b) ==
  IF met = "cosine" THEN cosineSimilarity(a, b) ELSE euclideanSimilarity(a, b)

(***************************************************************************)
(* BinaryHeap.  items is the heap's array; index i of the program is       *)
(* position i + 1 here.  An entry is [id, score]; the comparator of the    *)
(* candidates heap is a.score - b.score, that of the best heap is          *)
(* b.score - a.score.                                                      *)
(***************************************************************************)
compare(kind, a, b) ==
  IF kind = "candidates" THEN a.score - b.score ELSE b.score - a.score

swap(items, a, b) ==
  [items EXCEPT ![a + 1] = items[b + 1], ![b + 1] = items[a + 1]]

RECURSIVE bubbleUp(_, _, _)
bubbleUp(kind, items, currentIndex) ==
  IF currentIndex <= 0 THEN items
  ELSE LET parentIndex == (currentIndex - 1) \div 2
       IN  IF compare(kind, items[currentIndex + 1], items[parentIndex + 1]) <= 0
             THEN items
             ELSE bubbleUp(kind, swap(items, currentIndex, parentIndex), parentIndex)

\* largest after one of the two tests of bubbleDown: child if it is in the
\* array and compares above items[largest].
largerOf(kind, items, child, largest) ==
  IF child < Len(items) /\ compare(kind, items[child + 1], items[largest + 1]) > 0
    THEN child ELSE largest

RECURSIVE bubbleDown(_, _, _)
RECURSIVE sinkTo(_, _, _, _)
sinkTo(kind, items, currentIndex, largest) ==
  IF largest = currentIndex THEN items
  ELSE bubbleDown(kind, swap(items, currentIndex, largest), largest)

bubbleDown(kind, items, currentIndex) ==
  sinkTo(kind, items, currentIndex,
         largerOf(kind, items, currentIndex * 2 + 2,
                  largerOf(kind, items, currentIndex * 2 + 1, currentIndex)))

push(kind, items, item) == bubbleUp(kind, Append(items, item), Len(items))

\* peek(), and what pop() returns: <<>> for undefined, else <<items[0]>>.
peek(items) == IF Len(items) = 0 THEN <<>> ELSE <<items[1]>>

\* pop without the bubbleDown.
popNoSink(kind, items) ==
  IF Len(items) <= 1 THEN <<>>
  ELSE [SubSeq(items, 1, Len(items) - 1) EXCEPT ![1] = items[Len(items)]]

\* The array after pop(); the popped entry is items[1].
pop(kind, items) ==
  IF Len(items) <= 1 THEN <<>>
  ELSE bubbleDown(kind,
                  [SubSeq(items, 1, Len(items) - 1) EXCEPT ![1] = items[Len(items)]],
                  0)

(***************************************************************************)
(* Array.prototype.sort((a, b) => b.score - a.score): stable, descending.  *)
(***************************************************************************)
RECURSIVE insertSorted(_, _)
insertSorted(sorted, e) ==
  IF sorted = <<>> THEN <<e>>
  ELSE IF sorted[Len(sorted)].score >= e.score THEN Append(sorted, e)
  ELSE Append(insertSorted(SubSeq(sorted, 1, Len(sorted) - 1), e),
              sorted[Len(sorted)])

RECURSIVE sortFrom(_, _, _)
sortFrom(entries, i, acc) ==
  IF i > Len(entries) THEN acc
  ELSE sortFrom(entries, i + 1, insertSorted(acc, entries[i]))

sortByScoreDesc(entries) == sortFrom(entries, 1, <<>>)

Ids(entries) == [i \in 1..Len(entries) |-> entries[i].id]
Contains(seq, x) == \E i \in 1..Len(seq) : seq[i] = x
Without(seq, x) == SelectSeq(seq, LAMBDA y : y # x)

(***************************************************************************)
(* Nodes.  nodes maps an id to [level, vector, neighbors]; neighbors[l+1]  *)
(* is the program's neighbors[l].                                          *)
(***************************************************************************)
Node(vector, level) ==
  [level |-> level, vector |-> vector,
   neighbors |-> [l \in 1..(level + 1) |-> <<>>]]

\* node.neighbors[level] ?? []
neighborsAt(n, level) ==
  IF level >= 0 /\ level + 1 <= Len(n.neighbors) THEN n.neighbors[level + 1]
  ELSE <<>>

\* node.neighbors[level] = list (an assignment past the end extends the array)
setNeighbors(n, level, list) ==
  [n EXCEPT !.neighbors =
     [l \in 1..(IF level + 1 > Len(n.neighbors) THEN level + 1
                ELSE Len(n.neighbors)) |->
        IF l = level + 1 THEN list
        ELSE IF l <= Len(n.neighbors) THEN n.neighbors[l] ELSE <<>>]]

(***************************************************************************)
(* greedySearch: climb to a neighbor that scores strictly higher, until    *)
(* one pass over the neighbors of the best node improves nothing.          *)
(***************************************************************************)
climb(st, neighborId, similarity) ==
  IF similarity > st.bestScore
    THEN [bestNode |-> neighborId, bestScore |-> similarity, improved |-> TRUE]
    ELSE st

RECURSIVE greedyScan(_, _, _, _, _, _)
greedyScan(ns, met, query, neighbors, i, st) ==
  IF i > Len(neighbors) THEN st
  ELSE greedyScan(ns, met, query, neighbors, i + 1,
                  climb(st, neighbors[i], Sim(met, query, ns[neighbors[i]].vector)))

\* greedyLoop leaving after its first pass.
greedyOnePass(ns, met, query, level, st) ==
  greedyScan(ns, met, query, neighborsAt(ns[st.bestNode], level), 1,
             [st EXCEPT !.improved = FALSE]).bestNode

RECURSIVE greedyLoop(_, _, _, _, _)
greedyLoop(ns, met, query, level, st) ==
  IF st.improved
    THEN greedyLoop(ns, met, query, level,
           greedyScan(ns, met, query, neighborsAt(ns[st.bestNode], level), 1,
                      [st EXCEPT !.improved = FALSE]))
    ELSE st.bestNode

greedySearch(ns, met, query, entryNode, level) ==
  greedyLoop(ns, met, query, level,
             [bestNode |-> entryNode,
              bestScore |-> Sim(met, query, ns[entryNode].vector),
              improved |-> TRUE])

(***************************************************************************)
(* searchLayer: the beam search of one layer.  A search state is           *)
(* [visited, candidates, best, scored], the two heaps as their arrays and  *)
(* the ids the similarity function was called on, in call order.           *)
(***************************************************************************)
\* trim without the pop.
noTrim(ef, best) == best

\* if (best.size > ef) best.pop()
trim(ef, best) == IF Len(best) > ef THEN pop("best", best) ELSE best

\* The body of the loop over the neighbors, for a neighbor not yet visited.
visit(ef, st, entry) ==
  IF Len(st.best) < ef \/ Len(st.best) = 0 \/ entry.score > st.best[1].score
    THEN [visited |-> st.visited \cup {entry.id},
          candidates |-> push("candidates", st.candidates, entry),
          best |-> trim(ef, push("best", st.best, entry)),
          scored |-> Append(st.scored, entry.id)]
    ELSE [st EXCEPT !.visited = @ \cup {entry.id},
                    !.scored = Append(@, entry.id)]

RECURSIVE expandNeighbors(_, _, _, _, _, _, _)
expandNeighbors(ns, met, query, ef, neighbors, i, st) ==
  IF i > Len(neighbors) THEN st
  ELSE IF neighbors[i] \in st.visited
    THEN expandNeighbors(ns, met, query, ef, neighbors, i + 1, st)
    ELSE expandNeighbors(ns, met, query, ef, neighbors, i + 1,
           visit(ef, st, [id |-> neighbors[i],
                          score |-> Sim(met, query, ns[neighbors[i]].vector)]))

RECURSIVE searchLoop(_, _, _, _, _, _)
searchLoop(ns, met, query, level, ef, st) ==
  IF Len(st.candidates) = 0 THEN st
  ELSE IF Len(st.best) > 0 /\ Len(st.best) >= ef
          /\ st.candidates[1].score < st.best[1].score
    THEN [st EXCEPT !.candidates = pop("candidates", st.candidates)]
    ELSE searchLoop(ns, met, query, level, ef,
           expandNeighbors(ns, met, query, ef,
                           neighborsAt(ns[st.candidates[1].id], level), 1,
                           [st EXCEPT !.candidates = pop("candidates", st.candidates)]))

\* The search state after the two pushes of the entry node.
searchStart(entry) ==
  [visited |-> {entry.id},
   candidates |-> push("candidates", <<>>, entry),
   best |-> push("best", <<>>, entry),
   scored |-> <<entry.id>>]

backwards(seq) == [i \in 1..Len(seq) |-> seq[Len(seq) + 1 - i]]

\* searchLayer returning the entries worst first.
searchLayerAscending(ns, met, query, entryNode, level, ef) ==
  backwards(Ids(sortByScoreDesc(
        searchLoop(ns, met, query, level, ef,
                   searchStart([id |-> entryNode,
                                score |-> Sim(met, query, ns[entryNode].vector)])
                  ).best)))

\* The search state when the loop of searchLayer is left.
searchState(ns, met, query, entryNode, level, ef) ==
  searchLoop(ns, met, query, level, ef,
             searchStart([id |-> entryNode,
                          score |-> Sim(met, query, ns[entryNode].vector)]))

searchLayer(ns, met, query, entryNode, level, ef) ==
  Ids(sortByScoreDesc(
        searchLoop(ns, met, query, level, ef,
                   searchStart([id |-> entryNode,
                                score |-> Sim(met, query, ns[entryNode].vector)])
                  ).best))

(***************************************************************************)
(* selectNeighborsHeuristic: candidates (ids, in the caller's order) are   *)
(* de-duplicated through a Map keyed by id, sorted by score to the pivot,  *)
(* and admitted greedily when no admitted neighbor is more similar to the  *)
(* candidate than the pivot is.                                            *)
(***************************************************************************)
RECURSIVE uniqueCandidates(_, _, _, _)
uniqueCandidates(node, candidates, i, acc) ==
  IF i > Len(candidates) THEN acc
  ELSE IF candidates[i] = node \/ Contains(acc, candidates[i])
         THEN uniqueCandidates(node, candidates, i + 1, acc)
         ELSE uniqueCandidates(node, candidates, i + 1, Append(acc, candidates[i]))

\* shouldSelect with < for <=.
shouldSelectStrict(ns, met, entry, selected) ==
  \A j \in 1..Len(selected) :
     Sim(met, ns[entry.id].vector, ns[selected[j]].vector) < entry.score

shouldSelect(ns, met, entry, selected) ==
  \A j \in 1..Len(selected) :
     Sim(met, ns[entry.id].vector, ns[selected[j]].vector) <= entry.score

\* selectFrom without the test of selected.length against maxNeighbors.
RECURSIVE selectFromUncapped(_, _, _, _, _, _)
selectFromUncapped(ns, met, scored, i, maxNeighbors, selected) ==
  IF i > Len(scored) THEN selected
  ELSE IF shouldSelect(ns, met, scored[i], selected)
         THEN selectFromUncapped(ns, met, scored, i + 1, maxNeighbors,
                                 Append(selected, scored[i].id))
         ELSE selectFromUncapped(ns, met, scored, i + 1, maxNeighbors, selected)

RECURSIVE selectFrom(_, _, _, _, _, _)
selectFrom(ns, met, scored, i, maxNeighbors, selected) ==
  IF i > Len(scored) \/ Len(selected) >= maxNeighbors THEN selected
  ELSE IF shouldSelect(ns, met, scored[i], selected)
         THEN selectFrom(ns, met, scored, i + 1, maxNeighbors,
                         Append(selected, scored[i].id))
         ELSE selectFrom(ns, met, scored, i + 1, maxNeighbors, selected)

\* scoredCandidates without the sort: the Map's insertion order.
scoredUnsorted(ns, met, node, unique) ==
  [i \in 1..Len(unique) |->
     [id |-> unique[i],
      score |-> Sim(met, ns[node].vector, ns[unique[i]].vector)]]

\* The Map's values with their score to the pivot, sorted.
scoredCandidates(ns, met, node, unique) ==
  sortByScoreDesc(
    [i \in 1..Len(unique) |->
       [id |-> unique[i],
        score |-> Sim(met, ns[node].vector, ns[unique[i]].vector)]])

selectNeighborsHeuristic(ns, met, node, candidates, maxNeighbors) ==
  selectFrom(ns, met,
             scoredCandidates(ns, met, node,
                              uniqueCandidates(node, candidates, 1, <<>>)),
             1, maxNeighbors, <<>>)

(***************************************************************************)
(* Linking.  insertNeighbor returns the node map after the assignment and  *)
(* the ids it dropped from the list.                                       *)
(***************************************************************************)
\* The last two statements of insertNeighbor.
assignSelected(ns, node, level, existingIds, selectedIds) ==
  [nodes |-> [ns EXCEPT ![node] = setNeighbors(@, level, selectedIds)],
   removed |-> SelectSeq(existingIds, LAMBDA id : ~Contains(selectedIds, id))]

\* insertNeighbor from the computation of candidateIds on.
reselect(ns, m, met, node, neighborId, level, existingIds) ==
  assignSelected(ns, node, level, existingIds,
    selectNeighborsHeuristic(ns, met, node,
      SelectSeq(Append(existingIds, neighborId), LAMBDA id : id \in DOMAIN ns),
      m))

insertNeighbor(ns, m, met, node, neighborId, level) ==
  reselect(ns, m, met, node, neighborId, level,
           Without(neighborsAt(ns[node], level), neighborId))

RECURSIVE removeReciprocalLinks(_, _, _, _, _)
removeReciprocalLinks(ns, node, removedIds, level, i) ==
  IF i > Len(removedIds) THEN ns
  ELSE IF removedIds[i] \notin DOMAIN ns
         THEN removeReciprocalLinks(ns, node, removedIds, level, i + 1)
         ELSE removeReciprocalLinks(
                [ns EXCEPT ![removedIds[i]] =
                   setNeighbors(@, level, Without(neighborsAt(@, level), node))],
                node, removedIds, level, i + 1)

\* The two removeReciprocalLinks calls, given what the second insertNeighbor
\* returned.
repairBoth(node, other, level, removedFromNode, fromOther) ==
  removeReciprocalLinks(
    removeReciprocalLinks(fromOther.nodes, node, removedFromNode, level, 1),
    other, fromOther.removed, level, 1)

\* addBidirectionalConnection after its first insertNeighbor.
connectBack(m, met, node, other, level, fromNode) ==
  repairBoth(node, other, level, fromNode.removed,
             insertNeighbor(fromNode.nodes, m, met, other, node, level))

addBidirectionalConnection(ns, m, met, node, other, level) ==
  connectBack(m, met, node, other, level,
              insertNeighbor(ns, m, met, node, other, level))

RECURSIVE connectSelected(_, _, _, _, _, _, _)
connectSelected(ns, m, met, node, selected, level, i) ==
  IF i > Len(selected) THEN ns
  ELSE connectSelected(
         addBidirectionalConnection(ns, m, met, node, selected[i], level),
         m, met, node, selected, level, i + 1)

connectNodeAtLevel(ns, m, met, node, candidates, level) ==
  connectSelected(ns, m, met, node,
                  selectNeighborsHeuristic(ns, met, node, candidates, m),
                  level, 1)

(***************************************************************************)
(* addNodeToGraph, for a node already stored in the map.  g is the graph   *)
(* [nodes, entryPointId, levelMax]; the result is the graph afterwards.    *)
(***************************************************************************)
RECURSIVE descend(_, _, _, _, _, _)
descend(ns, met, query, entryNode, level, stop) ==
  IF level <= stop THEN entryNode
  ELSE descend(ns, met, query, greedySearch(ns, met, query, entryNode, level),
               level - 1, stop)

RECURSIVE linkLevels(_, _, _, _, _, _, _)
RECURSIVE linkAt(_, _, _, _, _, _, _, _)
\* One iteration of the loop over the levels, given what searchLayer returned.
linkAt(ns, m, met, efc, node, entryNode, level, neighbors) ==
  linkLevels(connectNodeAtLevel(ns, m, met, node, neighbors, level),
             m, met, efc, node,
             IF Len(neighbors) > 0 THEN neighbors[1] ELSE entryNode,
             level - 1)

linkLevels(ns, m, met, efc, node, entryNode, level) ==
  IF level < 0 THEN ns
  ELSE linkAt(ns, m, met, efc, node, entryNode, level,
              searchLayer(ns, met, ns[node].vector, entryNode, level, efc))

\* Math.min that yields its first argument (node.level as the target level).
MinFirst(a, b) == a

Min(a, b) == IF a < b THEN a ELSE b

\* The promotion of the node to entry point, given the linked node map.
promote(g, node, nodeLevel, linked) ==
  IF nodeLevel > g.levelMax
    THEN [nodes |-> linked, entryPointId |-> node, levelMax |-> nodeLevel]
    ELSE [g EXCEPT !.nodes = linked]

addNodeToGraph(g, m, met, efc, node) ==
  IF g.entryPointId = NoEntry
    THEN [g EXCEPT !.entryPointId = node, !.levelMax = g.nodes[node].level]
    ELSE promote(g, node, g.nodes[node].level,
           linkLevels(g.nodes, m, met, efc, node,
                      descend(g.nodes, met, g.nodes[node].vector, g.entryPointId,
                              g.levelMax, g.nodes[node].level),
                      Min(g.nodes[node].level, g.levelMax)))

(***************************************************************************)
(* searchKNN.  The result is [results, calls]: the returned list of        *)
(* [id, score] and the searchLayer calls made, each as [level, ef].        *)
(* options is <<>> when no efSearch override is given, <<n>> otherwise.    *)
(***************************************************************************)
Max(a, b) == IF a >= b THEN a ELSE b

\* takeResults without the break at results.length === k.
RECURSIVE takeAllResults(_, _, _, _, _, _)
takeAllResults(ns, met, query, k, candidates, results) ==
  IF candidates = <<>> THEN results
  ELSE IF \E j \in 1..Len(results) : results[j].id = Head(candidates)
    THEN takeAllResults(ns, met, query, k, Tail(candidates), results)
    ELSE takeAllResults(ns, met, query, k, Tail(candidates),
           Append(results,
                  [id |-> Head(candidates),
                   score |-> Sim(met, ns[Head(candidates)].vector, query)]))

RECURSIVE takeResults(_, _, _, _, _, _)
takeResults(ns, met, query, k, candidates, results) ==
  IF candidates = <<>> \/ Len(results) = k THEN results
  ELSE IF \E j \in 1..Len(results) : results[j].id = Head(candidates)
    THEN takeResults(ns, met, query, k, Tail(candidates), results)
    ELSE takeResults(ns, met, query, k, Tail(candidates),
           Append(results,
                  [id |-> Head(candidates),
                   score |-> Sim(met, ns[Head(candidates)].vector, query)]))

queryEf(k, options, efs) == Max(k, IF options = <<>> THEN efs ELSE options[1])

\* searchKNN past its guard, given the beam width.
searchWithEf(g, met, query, k, ef) ==
  [results |->
     takeResults(g.nodes, met, query, k,
       searchLayer(g.nodes, met, query,
                   descend(g.nodes, met, query, g.entryPointId, g.levelMax, 0),
                   0, ef),
       <<>>),
   calls |-> << [level |-> 0, ef |-> ef] >>]

searchKNN(g, met, efs, efc, query, k, options) ==
  IF g.entryPointId = NoEntry \/ DOMAIN g.nodes = {} \/ k <= 0
    THEN [results |-> <<>>, calls |-> <<>>]
    ELSE searchWithEf(g, met, query, k, queryEf(k, options, efs))

(***************************************************************************)
(* Snapshots.  A field the snapshot lacks is Null (a number) or            *)
(* "undefined" (the metric).                                               *)
(***************************************************************************)
toJSON(m, efc, efs, met, dim, g) ==
  [M |-> m, efConstruction |-> efc, efSearch |-> efs, metric |-> met, d |-> dim,
   levelMax |-> g.levelMax, entryPointId |-> g.entryPointId,
   nodes |-> [id \in DOMAIN g.nodes |->
                [level |-> g.nodes[id].level, vector |-> g.nodes[id].vector,
                 neighbors |-> g.nodes[id].neighbors]]]

\* toJSON of the revision that stores neither efSearch nor metric nor d.
toJSONLegacy(m, efc, efs, met, dim, g) ==
  [toJSON(m, efc, efs, met, dim, g)
     EXCEPT !.efSearch = Null, !.metric = "undefined", !.d = Null]

\* set_probs(M, 1 / Math.log(M)).  prob(level) is
\* exp(-level / levelMult) * (1 - exp(-1 / levelMult)), that is
\* M^-level * (1 - 1/M), and 0 at every level for M = 1 (levelMult is
\* Infinity).  A probability is written in units of 1e-9, rounded down: it is
\* below 1e-9 iff it is below one unit.
RECURSIVE probsFrom(_, _, _)
probsFrom(m, prob, list) ==
  IF prob < 1 THEN list
  ELSE probsFrom(m, prob \div m, Append(list, prob))

set_probs(m) ==
  probsFrom(m, ProbResolution - (ProbResolution + m - 1) \div m, <<>>)

fromJSON(json) ==
  [M |-> json.M, efConstruction |-> json.efConstruction,
   probs |-> set_probs(json.M),
   d |-> json.d,
   metric |-> IF json.metric = "undefined" THEN "cosine" ELSE json.metric,
   efSearch |-> IF json.efSearch = Null THEN DefaultEfSearch ELSE json.efSearch,
   levelMax |-> json.levelMax, entryPointId |-> json.entryPointId,
   nodes |-> [id \in DOMAIN json.nodes |->
                [level |-> json.nodes[id].level,
                 vector |-> ToFloat32Array(json.nodes[id].vector),
                 neighbors |-> json.nodes[id].neighbors]]]

(***************************************************************************)
(* The index as a state machine.                                           *)
(*   M .. nodes   the fields of the HNSW instance                          *)
(*   probs        its field probs, set by the constructor                  *)
(*   json         the snapshot in flight: <<>> or <<snapshot>>             *)
(*   build        the buildIndex call in progress: <<>> or <<[data, i]>>,  *)
(*                suspended at its await after i insertions                *)
(*   ret          the last call: its arguments and its outcome             *)
(***************************************************************************)
VARIABLES M, efConstruction, efSearch, metric, d, levelMax, entryPointId,
          nodes, probs, json, build, ret, db, store

graphVars == <<M, efConstruction, efSearch, metric, d, levelMax, entryPointId, nodes>>
vars == <<M, efConstruction, efSearch, metric, d, levelMax, entryPointId,
          nodes, probs, json, build, ret, db, store>>

\* The connection of an HNSWWithDB ("null" or "open") and the object store
\* of its database: empty, or the snapshot under the key 'hnsw'.  An HNSW
\* has neither.
dbVars == <<db, store>>
NoDatabase == db = "null" /\ store = <<>>

Graph == [nodes |-> nodes, entryPointId |-> entryPointId, levelMax |-> levelMax]

EmptyMap == [id \in {} |-> 0]

Ret(op, status) ==
  [op |-> op, status |-> status, id |-> 0, vector |-> <<>>,
   query |-> <<>>, k |-> 0, options |-> <<>>, results |-> <<>>, calls |-> <<>>]

\* new HNSW(M, efConstruction, d, metric, efSearch)
Init ==
  /\ M \in 1..MaxM
  /\ efConstruction \in {1, MaxEf}
  /\ efSearch = MaxEfSearch
  /\ metric \in Metrics
  /\ d \in {Null, 2}
  /\ entryPointId = NoEntry
  /\ levelMax = EmptyLevel
  /\ nodes = EmptyMap
  /\ json = <<>>
  /\ build = <<>>
  /\ NoDatabase
  /\ probs = set_probs(M)
  /\ ret = Ret("new", "ok")

(***************************************************************************)
(* addPoint(id, vector) with the level selectLevel() returns.  The result  *)
(* is the outcome, the dimension and the graph afterwards.                 *)
(***************************************************************************)
addPoint(m, met, efc, dim, g, id, vector, level) ==
  IF dim # Null /\ Len(vector) # dim
    THEN [status |-> "DimensionMismatch", d |-> dim, g |-> g]
  ELSE IF id \in DOMAIN g.nodes
    THEN [status |-> "DuplicateId", d |-> Len(vector), g |-> g]
  ELSE [status |-> "ok", d |-> Len(vector),
        g |-> addNodeToGraph(
                [g EXCEPT !.nodes =
                   [i \in DOMAIN g.nodes \cup {id} |->
                      IF i = id THEN Node(vector, level) ELSE g.nodes[i]]],
                m, met, efc, id)]

(***************************************************************************)
(* What callers pass.  Ids: the ids in use, one fresh positive id          *)
(* (positive ids are interchangeable: the code only tests ids for          *)
(* equality) and the id -1, the value entryPointId has for "no entry       *)
(* point".  A vector that gets stored has the length of the vectors        *)
(* already stored; other lengths are offered where the call fails before   *)
(* any score is computed.                                                  *)
(***************************************************************************)
FreshId == 1 + Cardinality({i \in DOMAIN nodes : i > 0})
IdChoices == DOMAIN nodes \cup {NoEntry, FreshId}
VecChoices == Vecs(metric) \cup {ShortVec(metric)}
Levels == 0..MaxLevel

\* The calls the model makes: one that stores a vector of Vecs(metric) under
\* an id not in use while fewer than MaxNodes nodes are stored, or one that
\* fails (a vector of the other length, or an id in use).
FailVecs == {ShortVec(metric), CHOOSE v \in Vecs(metric) : TRUE}

Stores(id, vector) ==
  /\ id \notin DOMAIN nodes
  /\ vector \in Vecs(metric)
  /\ d = Null \/ d = Len(vector)
  /\ Cardinality(DOMAIN nodes) < MaxNodes

Fails(id, vector) ==
  /\ vector \in FailVecs
  /\ (d # Null /\ Len(vector) # d) \/ id \in DOMAIN nodes

\* A call is made when no snapshot is in flight and no buildIndex is suspended
\* (the caller awaits it).  A run is followed up to its first query or failed
\* call: these leave the graph as it was, so the run goes on as the run
\* without them does.
Idle ==
  /\ json = <<>>
  /\ build = <<>>
  /\ ret.status = "ok"
  /\ ret.op # "searchKNN"

AddPoint ==
  /\ Idle
  /\ \E id \in IdChoices, vector \in VecChoices :
       /\ Stores(id, vector) \/ Fails(id, vector)
       /\ \E level \in IF Stores(id, vector) THEN Levels ELSE {0} :
            \E out \in {addPoint(M, metric, efConstruction, d, Graph, id, vector, level)} :
              /\ d' = out.d
              /\ nodes' = out.g.nodes
              /\ entryPointId' = out.g.entryPointId
              /\ levelMax' = out.g.levelMax
              /\ ret' = [Ret("addPoint", out.status) EXCEPT !.id = id, !.vector = vector]
  /\ UNCHANGED dbVars
  /\ UNCHANGED <<probs, M, efConstruction, efSearch, metric, json, build>>

Overrides == { <<>>, <<1>>, <<MaxEfSearch + 1>> }

\* The queries made: every query vector with every k >= 1, one of them also
\* with every override and with each k <= 0.
SearchInputs ==
  LET q0 == CHOOSE q \in Queries(metric) : q \in Vecs(metric) IN
  { [query |-> q, k |-> k, options |-> <<>>] : q \in Queries(metric), k \in 1..MaxK }
  \cup { [query |-> q0, k |-> k, options |-> o] : k \in 1..MaxK, o \in Overrides }
  \cup { [query |-> q0, k |-> k, options |-> <<>>] : k \in {0 - 1, 0} }

SearchKNN ==
  /\ Idle
  /\ \E in \in SearchInputs :
       \E out \in {searchKNN(Graph, metric, efSearch, efConstruction,
                             in.query, in.k, in.options)} :
         ret' = [Ret("searchKNN", "ok") EXCEPT
                   !.query = in.query, !.k = in.k, !.options = in.options,
                   !.results = out.results, !.calls = out.calls]
  /\ UNCHANGED dbVars
  /\ UNCHANGED <<probs, graphVars, json, build>>

ToJSON ==
  /\ Idle
  /\ json' = << toJSON(M, efConstruction, efSearch, metric, d, Graph) >>
  /\ ret' = Ret("toJSON", "ok")
  /\ UNCHANGED dbVars
  /\ UNCHANGED <<probs, graphVars, build>>

\* A snapshot written by the earlier revision; taken of cosine graphs, whose
\* vectors the restored (cosine) instance can score.
ToJSONLegacy ==
  /\ Idle
  /\ metric = "cosine"
  /\ json' = << toJSONLegacy(M, efConstruction, efSearch, metric, d, Graph) >>
  /\ ret' = Ret("toJSONLegacy", "ok")
  /\ UNCHANGED dbVars
  /\ UNCHANGED <<probs, graphVars, build>>

FromJSON ==
  /\ json # <<>>
  /\ \E hnsw \in {fromJSON(json[1])} :
       /\ M' = hnsw.M
       /\ efConstruction' = hnsw.efConstruction
       /\ efSearch' = hnsw.efSearch
       /\ metric' = hnsw.metric
       /\ d' = hnsw.d
       /\ levelMax' = hnsw.levelMax
       /\ entryPointId' = hnsw.entryPointId
       /\ nodes' = hnsw.nodes
       /\ probs' = hnsw.probs
  /\ json' = <<>>
  /\ ret' = Ret("fromJSON", "ok")
  /\ UNCHANGED dbVars
  /\ UNCHANGED build

(***************************************************************************)
(* buildIndex(data, options).  The call clears the index and runs addPoint *)
(* on the first item before it first suspends (addPoint has no await of    *)
(* its own: the insertion is over when the call suspends).  Each           *)
(* resumption reports the progress of the insertion awaited, then inserts  *)
(* the next item, or makes the final progress call and returns when none   *)
(* is left.  A failing addPoint rejects the call.  The caller awaits the   *)
(* call: nothing else runs while it is suspended.  The frame of the call   *)
(* is build[1]: data, the number i of items inserted, the options, log     *)
(* (the calls of onProgress made so far), found (the number of nodes the   *)
(* call found in the index) and started (the addPoint calls that have      *)
(* stored a node since the call cleared the index, in call order).         *)
(***************************************************************************)
BuildVecs(met) ==
  IF met = "euclidean" THEN { <<F32Exact + 2, F32Exact + 1>> } ELSE { <<2, 1>> }

BuildItems ==
  { [id |-> i, vector |-> v] :
      i \in 1..MaxBuild, v \in {ShortVec(metric)} \cup BuildVecs(metric) }

BuildData ==
  { data \in UNION { [1..n -> BuildItems] : n \in 0..MaxBuild } :
      Len(data) > 0 => data[1].vector \in Vecs(metric) }

\* options: no callback, a callback with the default interval, or a callback
\* with progressInterval p.
BuildOptions ==
  { [onProgress |-> FALSE, progressInterval |-> Null] }
  \cup { [onProgress |-> TRUE, progressInterval |-> p] :
           p \in {Null} \cup 1..MaxInterval }

\* options?.progressInterval ?? 10000
interval(options) ==
  IF options.progressInterval = Null THEN DefaultProgressInterval
  ELSE options.progressInterval

\* The earlier revision's clearing: the dimension is kept.
clearGraphOnly(dim, g) ==
  [d |-> dim,
   g |-> [nodes |-> EmptyMap, entryPointId |-> NoEntry, levelMax |-> EmptyLevel]]

\* nodes.clear(); levelMax = -1; entryPointId = -1; d = null
clearIndex(dim, g) ==
  [d |-> Null,
   g |-> [nodes |-> EmptyMap, entryPointId |-> NoEntry, levelMax |-> EmptyLevel]]

\* if (onProgress && (i + 1) % interval === 0) onProgress(i + 1, total)
reportProgress(options, log, current, total) ==
  IF options.onProgress /\ current % interval(options) = 0
    THEN Append(log, [current |-> current, total |-> total])
    ELSE log

\* if (onProgress && total % interval !== 0) onProgress(total, total)
finalProgress(options, log, total) ==
  IF options.onProgress /\ total % interval(options) # 0
    THEN Append(log, [current |-> total, total |-> total])
    ELSE log

BuildRet(status, options, log) ==
  [Ret("buildIndex", status) EXCEPT !.options = options, !.calls = log]

\* addPoint suspended in the middle of addNodeToGraph: the node is in the
\* map, not linked yet.
nodeStoredOnly(m, met, efc, dim, g, id, vector, level) ==
  IF dim # Null /\ Len(vector) # dim
    THEN [status |-> "DimensionMismatch", d |-> dim, g |-> g]
  ELSE IF id \in DOMAIN g.nodes
    THEN [status |-> "DuplicateId", d |-> Len(vector), g |-> g]
  ELSE [status |-> "ok", d |-> Len(vector),
        g |-> [g EXCEPT !.nodes =
                 [i \in DOMAIN g.nodes \cup {id} |->
                    IF i = id THEN Node(vector, level) ELSE g.nodes[i]]]]

\* The index when a call of addPoint first suspends, at
\* await this.addNodeToGraph(node): addNodeToGraph has no await, it has run
\* to its end.
addPointSuspended(m, met, efc, dim, g, id, vector, level) ==
  addPoint(m, met, efc, dim, g, id, vector, level)

Call(id, vector, level) == [id |-> id, vector |-> vector, level |-> level]

\* await this.addPoint(data[i].id, data[i].vector), from the cleared or
\* current index.
buildStep(dim, g, frame, log, level) ==
  \E out \in {addPointSuspended(M, metric, efConstruction, dim, g,
                                 frame.data[frame.i + 1].id,
                                 frame.data[frame.i + 1].vector, level)} :
    /\ d' = out.d
    /\ nodes' = out.g.nodes
    /\ entryPointId' = out.g.entryPointId
    /\ levelMax' = out.g.levelMax
    /\ IF out.status = "ok"
         THEN /\ build' = << [frame EXCEPT
                                !.i = frame.i + 1, !.log = log,
                                !.started =
                                  Append(@, Call(frame.data[frame.i + 1].id,
                                                 frame.data[frame.i + 1].vector,
                                                 level))] >>
              /\ ret' = BuildRet("pending", frame.options, log)
         ELSE /\ build' = <<>>
              /\ ret' = BuildRet(out.status, frame.options, log)

\* buildIndex(data, options) for the data and options of the given sets.
BuildIndexWith(dataChoices, optionChoices) ==
  /\ Idle
  /\ \E data \in dataChoices, level \in Levels, options \in optionChoices :
       \E cleared \in {clearIndex(d, Graph)} :
         IF Len(data) = 0
           THEN /\ d' = cleared.d
                /\ nodes' = cleared.g.nodes
                /\ entryPointId' = cleared.g.entryPointId
                /\ levelMax' = cleared.g.levelMax
                /\ build' = <<>>
                /\ ret' = BuildRet("ok", options, finalProgress(options, <<>>, 0))
           ELSE buildStep(cleared.d, cleared.g,
                          [data |-> data, i |-> 0, options |-> options,
                           log |-> <<>>, found |-> Cardinality(DOMAIN nodes),
                           started |-> <<>>],
                          <<>>, level)
  /\ UNCHANGED dbVars
  /\ UNCHANGED <<probs, M, efConstruction, efSearch, metric, json>>

BuildIndex == BuildIndexWith(BuildData, BuildOptions)

BuildIndexResume ==
  /\ build # <<>>
  /\ \E frame \in {build[1]} :
       \E log \in {reportProgress(frame.options, frame.log, frame.i,
                                  Len(frame.data))} :
         IF frame.i = Len(frame.data)
           THEN /\ build' = <<>>
                /\ ret' = BuildRet("ok", frame.options,
                                   finalProgress(frame.options, log,
                                                 Len(frame.data)))
                /\ UNCHANGED <<d, nodes, entryPointId, levelMax>>
           ELSE \E level \in Levels : buildStep(d, Graph, frame, log, level)
  /\ UNCHANGED dbVars
  /\ UNCHANGED <<probs, M, efConstruction, efSearch, metric, json>>

Next ==
  \/ AddPoint
  \/ SearchKNN
  \/ ToJSON
  \/ ToJSONLegacy
  \/ FromJSON
  \/ BuildIndex
  \/ BuildIndexResume

Spec == Init /\ [][Next]_vars

(***************************************************************************)
(* Properties of the graph.                                                *)
(***************************************************************************)
Layers(id) == 0..(Len(nodes[id].neighbors) - 1)
Linked(a, b, l) == Contains(neighborsAt(nodes[a], l), b)
Size == Cardinality(DOMAIN nodes)

\* C1: adjacency is symmetric at every layer: for all nodes a, b and every
\* layer l, b is in a.neighbors[l] if and only if a is in b.neighbors[l].
C1_SymmetricAdjacency ==
  \A a \in DOMAIN nodes, b \in DOMAIN nodes :
     \A l \in Layers(a) : Linked(a, b, l) => Linked(b, a, l)

\* C2: every neighbor list of every node, on every layer up to the node's
\* level, has at most M entries.
C2_NeighborCap ==
  \A id \in DOMAIN nodes :
     \A l \in Layers(id) : Len(neighborsAt(nodes[id], l)) <= M

\* More than M + 1 nodes, each with a full layer-0 list: every node has
\* more candidates than it may keep.
C2_Witness ==
  /\ Size > M + 1
  /\ \A id \in DOMAIN nodes : Len(neighborsAt(nodes[id], 0)) = M

\* C3: every neighbor list is well-formed: it holds neither the owner's id
\* nor an id twice, it holds only ids of the node map, an id listed on layer
\* l is that of a node of level >= l, and a node has level + 1 lists.
C3_WellFormedLists ==
  \A id \in DOMAIN nodes :
     /\ Len(nodes[id].neighbors) = nodes[id].level + 1
     /\ \A l \in Layers(id) :
          LET list == neighborsAt(nodes[id], l)
          IN  /\ ~Contains(list, id)
              /\ \A i, j \in 1..Len(list) : list[i] = list[j] => i = j
              /\ \A i \in 1..Len(list) :
                   /\ list[i] \in DOMAIN nodes
                   /\ nodes[list[i]].level >= l

\* Three nodes, one of them linked on layer 1 and holding two layer-0 neighbors.
C3_Witness ==
  /\ Size = 3
  /\ \E id \in DOMAIN nodes :
       /\ nodes[id].level = 1
       /\ Len(neighborsAt(nodes[id], 1)) = 1
       /\ Len(neighborsAt(nodes[id], 0)) = 2

\* C4: whenever the graph is non-empty, entryPointId names an existing node
\* whose level equals levelMax, and no node has a level above levelMax.
C4_EntryPoint ==
  DOMAIN nodes # {} =>
    /\ entryPointId \in DOMAIN nodes
    /\ nodes[entryPointId].level = levelMax
    /\ \A id \in DOMAIN nodes : nodes[id].level <= levelMax

(***************************************************************************)
(* Properties of searchKNN.                                                *)
(***************************************************************************)
Searched == ret.op = "searchKNN"

\* C5: searchKNN returns without error at most max(k, 0) entries, none when
\* the graph is empty or k <= 0; their ids are pairwise distinct ids of
\* stored nodes, each score is the similarity of the node's vector to the
\* query, and the scores do not increase along the list.
C5_SearchResultShape ==
  Searched =>
    LET r == ret.results
    IN  /\ ret.status = "ok"
        /\ Len(r) <= Max(ret.k, 0)
        /\ (DOMAIN nodes = {} \/ ret.k <= 0) => r = <<>>
        /\ \A i \in 1..Len(r) :
             /\ r[i].id \in DOMAIN nodes
             /\ r[i].score = Sim(metric, nodes[r[i].id].vector, ret.query)
        /\ \A i, j \in 1..Len(r) : r[i].id = r[j].id => i = j
        /\ \A i \in 1..(Len(r) - 1) : r[i].score >= r[i + 1].score

\* A query for two of three stored nodes, answered by two entries of
\* different score.
C5_Witness ==
  /\ Searched
  /\ Size = 3
  /\ ret.k = 2
  /\ Len(ret.results) = 2
  /\ ret.results[1].score > ret.results[2].score

RECURSIVE SeqOfSet(_)
SeqOfSet(S) ==
  IF S = {} THEN <<>>
  ELSE LET x == CHOOSE y \in S : TRUE IN <<x>> \o SeqOfSet(S \ {x})

\* The k best of a scan over all the nodes.
bruteForce(ns, met, query, k) ==
  LET ids == SeqOfSet(DOMAIN ns)
      all == sortByScoreDesc([i \in 1..Len(ids) |->
                                [id |-> ids[i],
                                 score |-> Sim(met, ns[ids[i]].vector, query)]])
  IN  SubSeq(all, 1, Min(k, Len(all)))

DistinctScores(ns, met, query) ==
  \A a, b \in DOMAIN ns :
     a # b => Sim(met, ns[a].vector, query) # Sim(met, ns[b].vector, query)

\* The index of C6: n >= 1 nodes, all at level 0, M >= n - 1 and
\* efConstruction >= n, queried without override with max(k, efSearch) >= n
\* by a query that scores all the nodes differently.
ExactCase ==
  /\ Searched
  /\ ret.k >= 1
  /\ ret.options = <<>>
  /\ Size >= 1
  /\ \A id \in DOMAIN nodes : nodes[id].level = 0
  /\ M >= Size - 1
  /\ efConstruction >= Size
  /\ Max(ret.k, efSearch) >= Size
  /\ DistinctScores(nodes, metric, ret.query)

\* C6: on an index of n nodes, all at level 0, with M >= n - 1 and
\* efConstruction >= n, searchKNN(q, k) with max(k, efSearch) >= n returns
\* the k highest scoring nodes in descending order of score, as a scan over
\* all the nodes does.
C6_ExactSearch ==
  ExactCase => ret.results = bruteForce(nodes, metric, ret.query, ret.k)

\* C10: on a graph of at least one node and for k >= 1, searchKNN runs the
\* layer-0 beam search exactly once, with ef = max(k, options.efSearch if
\* given, else the graph's efSearch).
C10_QueryBeamWidth ==
  (Searched /\ DOMAIN nodes # {} /\ ret.k >= 1) =>
    ret.calls = << [level |-> 0,
                    ef |-> Max(ret.k, IF ret.options = <<>> THEN efSearch
                                      ELSE ret.options[1])] >>

(***************************************************************************)
(* Properties of snapshots, failed calls and the dimension.                *)
(***************************************************************************)
\* C7: fromJSON(toJSON(g)) has the M, efConstruction, efSearch, metric, d,
\* levelMax, entryPointId and nodes (ids, levels, vectors, neighbor lists in
\* stored order) of g.
C7_RoundTrip ==
  [][(/\ json # <<>>
      /\ json' = <<>>
      /\ json[1] = toJSON(M, efConstruction, efSearch, metric, d, Graph))
     => UNCHANGED graphVars]_vars

\* C8: addPoint with an id already present fails with the duplicate-id
\* error, addPoint with a vector whose length differs from the fixed d fails
\* with the dimension error, and a failed addPoint leaves the node map,
\* entryPointId, levelMax and d (and the parameters) as they were.
C8_FailedAddPoint ==
  [][ret'.op = "addPoint" =>
       /\ (d # Null /\ Len(ret'.vector) # d) => ret'.status = "DimensionMismatch"
       /\ (ret'.id \in DOMAIN nodes /\ (d = Null \/ Len(ret'.vector) = d))
            => ret'.status = "DuplicateId"
       /\ ret'.status # "ok" => UNCHANGED graphVars]_vars

\* C9: all node vectors have the same length, and d is that length whenever
\* the graph is non-empty.
C9_CommonDimension ==
  /\ \A a, b \in DOMAIN nodes : Len(nodes[a].vector) = Len(nodes[b].vector)
  /\ \A a \in DOMAIN nodes : d = Len(nodes[a].vector)

(***************************************************************************)
(* Properties of buildIndex.                                               *)
(***************************************************************************)
BuildStepTaken == ret'.op = "buildIndex"

\* The data of the call a step of buildIndex belongs to, and the number of
\* addPoint calls it has made when the step is over.
stepData == IF build' # <<>> THEN build'[1].data
            ELSE IF build # <<>> THEN build[1].data ELSE <<>>
stepCalls == IF build' # <<>> THEN build'[1].i
             ELSE IF build = <<>> THEN 0
             ELSE IF ret'.status = "ok" THEN build[1].i ELSE build[1].i + 1

\* The first n items of data inserted one after the other from st, up to
\* the first failure, each with the level its node has in ns.
RECURSIVE insertAll(_, _, _, _, _)
insertAll(st, data, j, n, ns) ==
  IF j >= n \/ st.status # "ok" THEN st
  ELSE insertAll(
         addPoint(M, metric, efConstruction, st.d, st.g,
                  data[j + 1].id, data[j + 1].vector,
                  IF data[j + 1].id \in DOMAIN ns THEN ns[data[j + 1].id].level
                  ELSE 0),
         data, j + 1, n, ns)

\* new HNSW(M, efConstruction, null, metric)
FreshIndex ==
  [status |-> "ok", d |-> Null,
   g |-> [nodes |-> EmptyMap, entryPointId |-> NoEntry, levelMax |-> EmptyLevel]]

\* C11: whatever the index held, after each step of buildIndex(data) the
\* nodes, neighbor lists, entryPointId, levelMax and d are those a fresh
\* index with the same parameters has after the same insertions of data with
\* the same level draws; nothing of the earlier index survives.
C11_BuildFromScratch ==
  [][BuildStepTaken =>
       LET fresh == insertAll(FreshIndex, stepData, 0, stepCalls, nodes')
       IN  /\ d' = fresh.d
           /\ nodes' = fresh.g.nodes
           /\ entryPointId' = fresh.g.entryPointId
           /\ levelMax' = fresh.g.levelMax
           /\ (ret'.status \in {"ok", "pending"}) <=> (fresh.status = "ok")
           /\ ret'.status \notin {"ok", "pending"} => ret'.status = fresh.status]_vars

\* buildIndex found a non-empty index and has inserted MaxBuild items.
C11_Witness ==
  /\ build # <<>>
  /\ build[1].found > 0
  /\ build[1].i = MaxBuild
  /\ Cardinality(DOMAIN nodes) = MaxBuild

\* onProgress(c, n) for c = p, 2p, ... below n, then onProgress(n, n).
expectedProgress(n, p) ==
  LET before == IF n = 0 THEN 0 ELSE (n - 1) \div p
  IN  [j \in 1..(before + 1) |->
         IF j <= before THEN [current |-> j * p, total |-> n]
         ELSE [current |-> n, total |-> n]]

\* C12: buildIndex(data, {onProgress, progressInterval: p}) with n items and
\* p >= 1 calls onProgress(c, n) exactly for c = p, 2p, ... in increasing
\* order, each call made when exactly c insertions have completed, and
\* onProgress(n, n) exactly once as the last call, for every n >= 0 (also
\* when n is a multiple of p and when data is empty).
C12_ProgressCalls ==
  [][(BuildStepTaken /\ ret'.options.onProgress) =>
       /\ build # <<>> =>
            /\ Len(ret'.calls) >= Len(build[1].log)
            /\ \A j \in 1..Len(ret'.calls) :
                 IF j <= Len(build[1].log) THEN ret'.calls[j] = build[1].log[j]
                 ELSE ret'.calls[j].current = build[1].i
       /\ ret'.status = "ok" =>
            ret'.calls = expectedProgress(Len(stepData), interval(ret'.options))]_vars

(***************************************************************************)
(* selectNeighborsHeuristic as a function of its arguments.  The call is   *)
(* made on a node map of SelectSize nodes, with every pivot, every list of *)
(* at most MaxCandidates candidates (the pivot and repeated candidates     *)
(* included) and every cap up to MaxM; ret is the call: its arguments and, *)
(* once it has returned, the ids selected.                                 *)
(***************************************************************************)
SelectVecs(met) ==
  IF met = "euclidean"
    THEN << <<0, 0>>, <<1, 0>>, <<2, 0>>, <<0, 2>>, <<1, 2>> >>
    ELSE << <<1, 0>>, <<2, 1>>, <<1, 2>>, <<2, 1>>, <<0, 1>> >>

SelectSize == Len(SelectVecs("euclidean"))

SelectNodes(met) == [id \in 1..SelectSize |-> Node(SelectVecs(met)[id], 0)]

CandidateLists == UNION { [1..n -> 1..SelectSize] : n \in 0..MaxCandidates }

SelectCall(node, candidates, maxNeighbors) ==
  [op |-> "selectNeighborsHeuristic", status |-> "pending", node |-> node,
   candidates |-> candidates, maxNeighbors |-> maxNeighbors, selected |-> <<>>]

SelectInit ==
  /\ M = MaxM
  /\ efConstruction = MaxEf
  /\ efSearch = MaxEfSearch
  /\ metric \in Metrics
  /\ d = 2
  /\ nodes = SelectNodes(metric)
  /\ entryPointId = 1
  /\ levelMax = 0
  /\ json = <<>>
  /\ build = <<>>
  /\ NoDatabase
  /\ probs = set_probs(M)
  /\ \E node \in 1..SelectSize, candidates \in CandidateLists,
        maxNeighbors \in 0..MaxM :
       ret = SelectCall(node, candidates, maxNeighbors)

SelectNeighbors ==
  /\ ret.status = "pending"
  /\ ret' = [ret EXCEPT
               !.status = "ok",
               !.selected = selectNeighborsHeuristic(nodes, metric, ret.node,
                                                     ret.candidates,
                                                     ret.maxNeighbors)]
  /\ UNCHANGED dbVars
  /\ UNCHANGED <<probs, graphVars, json, build>>

SpecSelect == SelectInit /\ [][SelectNeighbors]_vars

\* C13: selectNeighborsHeuristic(pivot, C, m) returns the greedy diverse
\* selection: the candidates without repetitions and without the pivot, in
\* descending score to the pivot (ties in input order), each admitted iff
\* fewer than m are admitted before it and every s admitted before it has
\* score(c, s) <= score(pivot, c); so the result has at most m ids of C and,
\* when a candidate other than the pivot exists and m >= 1, starts with the
\* highest-scoring one; pivot [0,0] with 2:[1,0], 3:[2,0], 4:[0,2],
\* euclidean, m = 2 gives [2, 4].
C13_GreedyDiverse ==
  ret.status = "ok" =>
    LET R == ret.selected
        C == ret.candidates
        m == ret.maxNeighbors
        U == {C[i] : i \in 1..Len(C)} \ {ret.node}
        score(c) == Sim(metric, nodes[ret.node].vector, nodes[c].vector)
        first(c) == CHOOSE i \in 1..Len(C) :
                      C[i] = c /\ \A j \in 1..(i - 1) : C[j] # c
        before(a, b) == \/ score(a) > score(b)
                        \/ score(a) = score(b) /\ first(a) < first(b)
        inR(c) == \E i \in 1..Len(R) : R[i] = c
        admittedBefore(c) == {s \in U : inR(s) /\ before(s, c)}
    IN  /\ \A i \in 1..Len(R) : R[i] \in U
        /\ \A i, j \in 1..Len(R) : i < j => before(R[i], R[j])
        /\ \A c \in U :
             inR(c) <=>
               /\ Cardinality(admittedBefore(c)) < m
               /\ \A s \in admittedBefore(c) :
                    Sim(metric, nodes[c].vector, nodes[s].vector) <= score(c)
        /\ Len(R) <= m
        /\ (U # {} /\ m >= 1) =>
             /\ Len(R) >= 1
             /\ \A c \in U \ {R[1]} : before(R[1], c)
        /\ (metric = "euclidean" /\ ret.node = 1 /\ C = <<2, 3, 4>> /\ m = 2)
             => R = <<2, 4>>

\* The example of the diversity heuristic has returned; and a call whose
\* candidate is as far from an admitted one as from the pivot.
C13_Witness ==
  /\ ret.status = "ok"
  /\ metric = "euclidean"
  /\ \/ ret.node = 1 /\ ret.candidates = <<2, 3, 4>> /\ ret.maxNeighbors = 2
        /\ ret.selected = <<2, 4>>
     \/ ret.node = 1 /\ ret.candidates = <<5, 3>> /\ ret.maxNeighbors = 2
        /\ ret.selected = <<3, 5>>

(***************************************************************************)
(* selectLevel as a function of probs and of the draw r = Math.random().   *)
(* Numbers are written in units of 1/ProbUnit.  probs is the test's        *)
(* [0.5, 0.3, 0.2] or a list of quarters and halves, r any multiple of     *)
(* 1/ProbUnit below 1: on these the comparisons and subtractions of the    *)
(* units give what the program's floating-point ones give.                 *)
(***************************************************************************)
\* levelFrom without r -= p.
RECURSIVE levelFromKeepingR(_, _, _)
levelFromKeepingR(plist, r, i) ==
  IF i > Len(plist) THEN Len(plist) - 1
  ELSE IF r < plist[i] THEN i - 1
  ELSE levelFromKeepingR(plist, r, i + 1)

\* The loop of selectLevel from index i - 1 on, and its final return.
RECURSIVE levelFrom(_, _, _)
levelFrom(plist, r, i) ==
  IF i > Len(plist) THEN Len(plist) - 1
  ELSE IF r < plist[i] THEN i - 1
  ELSE levelFrom(plist, r - plist[i], i + 1)

selectLevel(plist, r) == levelFrom(plist, r, 1)

ProbLists ==
  UNION { [1..n -> {ProbUnit \div 4, ProbUnit \div 2}] : n \in 0..MaxProbs }
  \cup { << ProbUnit \div 2, (3 * ProbUnit) \div 10, ProbUnit \div 5 >> }

LevelInit ==
  /\ M = MaxM
  /\ efConstruction = MaxEf
  /\ efSearch = MaxEfSearch
  /\ metric = "cosine"
  /\ d = Null
  /\ nodes = EmptyMap
  /\ entryPointId = NoEntry
  /\ levelMax = EmptyLevel
  /\ json = <<>>
  /\ build = <<>>
  /\ NoDatabase
  /\ probs = set_probs(M)
  /\ \E plist \in ProbLists, r \in 0..(ProbUnit - 1) :
       ret = [op |-> "selectLevel", status |-> "pending", probs |-> plist,
              r |-> r, level |-> EmptyLevel]

SelectLevel ==
  /\ ret.status = "pending"
  /\ ret' = [ret EXCEPT !.status = "ok",
                        !.level = selectLevel(ret.probs, ret.r)]
  /\ UNCHANGED dbVars
  /\ UNCHANGED <<probs, graphVars, json, build>>

SpecLevel == LevelInit /\ [][SelectLevel]_vars

RECURSIVE sumTo(_, _)
sumTo(plist, n) == IF n = 0 THEN 0 ELSE sumTo(plist, n - 1) + plist[n]

\* C14: for a draw r in [0, 1) selectLevel returns the smallest level l with
\* r < probs[0] + ... + probs[l], and probs.length - 1 when r is not below
\* the total; with probs = [0.5, 0.3, 0.2] the draws 0.2, 0.6, 0.95 give the
\* levels 0, 1, 2; for non-empty probs the result lies in 0..probs.length-1.
C14_CumulativeLevel ==
  (ret.status = "ok" /\ ret.probs # <<>>) =>
    LET n == Len(ret.probs)
        below == {l \in 0..(n - 1) : ret.r < sumTo(ret.probs, l + 1)}
    IN  /\ ret.level \in 0..(n - 1)
        /\ IF below = {} THEN ret.level = n - 1
           ELSE /\ ret.level \in below
                /\ \A l \in below : ret.level <= l
        /\ ret.probs = << ProbUnit \div 2, (3 * ProbUnit) \div 10, ProbUnit \div 5 >> =>
             /\ ret.r = ProbUnit \div 5 => ret.level = 0
             /\ ret.r = (3 * ProbUnit) \div 5 => ret.level = 1
             /\ ret.r = (19 * ProbUnit) \div 20 => ret.level = 2

\* The draw 0.6 on probs = [0.5, 0.3, 0.2] has given level 1.
C14_Witness ==
  /\ ret.status = "ok"
  /\ ret.probs = << ProbUnit \div 2, (3 * ProbUnit) \div 10, ProbUnit \div 5 >>
  /\ ret.r = (3 * ProbUnit) \div 5
  /\ ret.level = 1

(***************************************************************************)
(* The caller's array.  addPoint hands the caller's array to the Node      *)
(* constructor, which stores the reference: the array of the node and the  *)
(* array the caller holds are one object.  MutateVector is the caller      *)
(* overwriting the elements of the array it passed to the addPoint call    *)
(* that has just returned (ret.id, ret.vector), with the elements of       *)
(* another vector of the same length.                                      *)
(***************************************************************************)
MutateVector ==
  /\ json = <<>>
  /\ build = <<>>
  /\ ret.op = "addPoint"
  /\ ret.status = "ok"
  /\ \E vector \in Vecs(metric) \ {ret.vector} :
       /\ nodes' = [nodes EXCEPT ![ret.id].vector = vector]
       /\ ret' = [Ret("mutate", "ok") EXCEPT !.id = ret.id, !.vector = vector]
  /\ UNCHANGED dbVars
  /\ UNCHANGED <<probs, M, efConstruction, efSearch, metric, d, levelMax,
                 entryPointId, json, build>>

SpecAlias == Init /\ [][AddPoint \/ MutateVector]_vars

\* C15: vectors are copied on insertion: after addPoint(id, v), a mutation
\* of the caller's array v changes neither the stored node vector, nor the
\* graph, nor the result of any later searchKNN or toJSON.
C15_VectorsCopied ==
  [][ret'.op = "mutate" =>
       /\ nodes' = nodes
       /\ UNCHANGED graphVars
       /\ toJSON(M', efConstruction', efSearch', metric', d',
                 [nodes |-> nodes', entryPointId |-> entryPointId',
                  levelMax |-> levelMax'])
            = toJSON(M, efConstruction, efSearch, metric, d, Graph)
       /\ \A in \in SearchInputs :
            searchKNN([nodes |-> nodes', entryPointId |-> entryPointId',
                       levelMax |-> levelMax'],
                      metric', efSearch', efConstruction',
                      in.query, in.k, in.options)
              = searchKNN(Graph, metric, efSearch, efConstruction,
                          in.query, in.k, in.options)]_vars

(***************************************************************************)
(* Calls made while buildIndex is suspended.  The caller does not await    *)
(* buildIndex: between two of its resumptions it starts addPoint (without  *)
(* awaiting it either: what addPoint does after its await changes          *)
(* nothing), runs searchKNN, or takes a snapshot.  Every state is a point  *)
(* where the program is suspended.                                         *)
(***************************************************************************)
InterleavedAddPoint ==
  /\ build # <<>>
  /\ \E id \in {FreshId}, vector \in {ShortVec(metric)} \cup BuildVecs(metric) :
       /\ Stores(id, vector) \/ Fails(id, vector)
       /\ \E level \in IF Stores(id, vector) THEN Levels ELSE {0} :
            \E out \in {addPointSuspended(M, metric, efConstruction, d, Graph,
                                          id, vector, level)} :
              /\ d' = out.d
              /\ nodes' = out.g.nodes
              /\ entryPointId' = out.g.entryPointId
              /\ levelMax' = out.g.levelMax
              /\ build' = IF out.status = "ok"
                            THEN << [build[1] EXCEPT
                                       !.started = Append(@, Call(id, vector, level))] >>
                            ELSE build
              /\ ret' = [Ret("addPoint", out.status) EXCEPT !.id = id, !.vector = vector]
  /\ UNCHANGED dbVars
  /\ UNCHANGED <<probs, M, efConstruction, efSearch, metric, json>>

InterleavedSearchKNN ==
  /\ build # <<>>
  /\ \E in \in {in \in SearchInputs : in.k = MaxK /\ in.options = <<>>} :
       \E out \in {searchKNN(Graph, metric, efSearch, efConstruction,
                             in.query, in.k, in.options)} :
         ret' = [Ret("searchKNN", "ok") EXCEPT
                   !.query = in.query, !.k = in.k, !.options = in.options,
                   !.results = out.results, !.calls = out.calls]
  /\ UNCHANGED dbVars
  /\ UNCHANGED <<probs, graphVars, json, build>>

\* The snapshot is what the call returns: ret.results.
InterleavedToJSON ==
  /\ build # <<>>
  /\ ret' = [Ret("toJSON", "ok") EXCEPT
               !.results = << toJSON(M, efConstruction, efSearch, metric, d, Graph) >>]
  /\ UNCHANGED dbVars
  /\ UNCHANGED <<probs, graphVars, json, build>>

\* new HNSW(MaxM, MaxEf, null, metric, MaxEfSearch)
InterleaveInit ==
  /\ M = MaxM
  /\ efConstruction = MaxEf
  /\ efSearch = MaxEfSearch
  /\ metric \in Metrics
  /\ d = Null
  /\ entryPointId = NoEntry
  /\ levelMax = EmptyLevel
  /\ nodes = EmptyMap
  /\ json = <<>>
  /\ build = <<>>
  /\ NoDatabase
  /\ probs = set_probs(M)
  /\ ret = Ret("new", "ok")

\* buildIndex(data) without options.
InterleaveBuildIndex ==
  BuildIndexWith(BuildData, {o \in BuildOptions : ~o.onProgress})

SpecInterleave ==
  InterleaveInit /\ [][\/ InterleaveBuildIndex
             \/ BuildIndexResume
             \/ InterleavedAddPoint
             \/ InterleavedSearchKNN
             \/ InterleavedToJSON]_vars

\* C16: an insertion is atomic with respect to interleaving: while
\* buildIndex is in progress and addPoint calls are started without being
\* awaited, the graph at every suspension is the one the insertions made so
\* far give when run one after the other in call order, a searchKNN run in
\* between answers from that graph, and a snapshot taken in between is the
\* snapshot of that graph.
C16_AtomicInsertion ==
  build # <<>> =>
    LET calls == build[1].started
        now == insertAll(FreshIndex, calls, 0, Len(calls), nodes)
    IN  /\ now.status = "ok"
        /\ d = now.d
        /\ nodes = now.g.nodes
        /\ entryPointId = now.g.entryPointId
        /\ levelMax = now.g.levelMax
        /\ ret.op = "searchKNN" =>
             ret.results = searchKNN(now.g, metric, efSearch, efConstruction,
                                     ret.query, ret.k, ret.options).results
        /\ ret.op = "toJSON" =>
             ret.results = << toJSON(M, efConstruction, efSearch, metric,
                                     now.d, now.g) >>

\* buildIndex has inserted its first item, an addPoint started before its
\* resumption has stored a node, and a query has just been answered from
\* both.
C16_Witness ==
  /\ build # <<>>
  /\ build[1].i = 1
  /\ Len(build[1].data) = MaxBuild
  /\ Len(build[1].started) > 1
  /\ ret.op = "searchKNN"
  /\ Len(ret.results) >= 2

(***************************************************************************)
(* HNSWWithDB: an HNSW (cosine, d = null) with a connection db to the      *)
(* database dbName, whose object store holds at most the snapshot put      *)
(* under the key 'hnsw'.  The caller awaits each call.  deleteIndex        *)
(* suspends twice, at await deleteDB and at await this.initDB(): while it  *)
(* is suspended ret.status says what it awaits.  A failed call ends the    *)
(* run, as in the index.  Vectors: two of the cosine vectors, and into the *)
(* empty index also one with a component no float32 holds; such a vector   *)
(* stays the only one of its index, as no score of it is computed here.    *)
(***************************************************************************)
NotInitialized == "Database is not initialized"

UnroundedVec == <<F32Exact + 1, F32Exact + 2>>

DbVecs ==
  IF DOMAIN nodes = {} THEN {<<1, 0>>, <<2, 1>>, UnroundedVec}
  ELSE IF \E id \in DOMAIN nodes : nodes[id].vector \notin Vecs("cosine") THEN {}
  ELSE {<<1, 0>>, <<2, 1>>}

\* await HNSWWithDB.create(M, efConstruction, dbName, efSearch), dbName new
DbInit ==
  /\ M \in 1..MaxM
  /\ efConstruction = MaxEf
  /\ efSearch = MaxEfSearch
  /\ metric = "cosine"
  /\ d = Null
  /\ entryPointId = NoEntry
  /\ levelMax = EmptyLevel
  /\ nodes = EmptyMap
  /\ json = <<>>
  /\ build = <<>>
  /\ db = "open"
  /\ store = <<>>
  /\ probs = set_probs(M)
  /\ ret = Ret("create", "ok")

DbAddPoint ==
  /\ Idle
  /\ Cardinality(DOMAIN nodes) < DbMaxNodes
  /\ \E vector \in DbVecs, level \in Levels :
       \E out \in {addPoint(M, metric, efConstruction, d, Graph, FreshId, vector, level)} :
         /\ d' = out.d
         /\ nodes' = out.g.nodes
         /\ entryPointId' = out.g.entryPointId
         /\ levelMax' = out.g.levelMax
         /\ ret' = [Ret("addPoint", out.status) EXCEPT !.id = FreshId, !.vector = vector]
  /\ UNCHANGED <<probs, M, efConstruction, efSearch, metric, json, build, dbVars>>

\* if (!this.db) return; this.db.close(); this.db = null
Close ==
  /\ Idle
  /\ db' = "null"
  /\ ret' = Ret("close", "ok")
  /\ UNCHANGED <<probs, graphVars, json, build, store>>

SaveIndex ==
  /\ Idle
  /\ IF db = "null"
       THEN /\ ret' = Ret("saveIndex", NotInitialized)
            /\ UNCHANGED store
       ELSE /\ store' = << toJSON(M, efConstruction, efSearch, metric, d, Graph) >>
            /\ ret' = Ret("saveIndex", "ok")
  /\ UNCHANGED <<probs, graphVars, json, build, db>>

LoadIndex ==
  /\ Idle
  /\ IF db = "null"
       THEN /\ ret' = Ret("loadIndex", NotInitialized)
            /\ UNCHANGED graphVars
       ELSE IF store = <<>>
         THEN /\ ret' = Ret("loadIndex", "ok")
              /\ UNCHANGED graphVars
         ELSE \E hnsw \in {fromJSON(store[1])} :
                /\ M' = hnsw.M
                /\ efConstruction' = hnsw.efConstruction
                /\ efSearch' = hnsw.efSearch
                /\ metric' = hnsw.metric
                /\ d' = hnsw.d
                /\ levelMax' = hnsw.levelMax
                /\ entryPointId' = hnsw.entryPointId
                /\ nodes' = hnsw.nodes
                /\ ret' = Ret("loadIndex", "ok")
  /\ UNCHANGED <<probs, json, build, dbVars>>

\* deleteIndex resolving once deleteDB has, as the earlier revision does.
resolved(op) == Ret(op, "ok")

\* await this.initDB()
awaitInitDB(op) == Ret(op, "awaiting openDB")

\* deleteIndex up to await deleteDB(this.dbName)
DeleteIndex ==
  /\ Idle
  /\ IF db = "null"
       THEN /\ ret' = Ret("deleteIndex", NotInitialized)
            /\ UNCHANGED db
       ELSE /\ db' = "null"
            /\ ret' = Ret("deleteIndex", "awaiting deleteDB")
  /\ UNCHANGED <<probs, graphVars, json, build, store>>

\* deleteDB has deleted the database; deleteIndex goes on to initDB.
DeleteDBDone ==
  /\ ret.status = "awaiting deleteDB"
  /\ store' = <<>>
  /\ ret' = awaitInitDB(ret.op)
  /\ UNCHANGED <<probs, graphVars, json, build, db>>

\* openDB has opened the new database; initDB and deleteIndex return.
OpenDBDone ==
  /\ ret.status = "awaiting openDB"
  /\ db' = "open"
  /\ ret' = Ret(ret.op, "ok")
  /\ UNCHANGED <<probs, graphVars, json, build, store>>

\* The instance is closed and another one is created on the same dbName:
\* await HNSWWithDB.create(M, efConstruction, dbName, efSearch)
Reopen ==
  /\ Idle
  /\ db = "null"
  /\ M' \in 1..MaxM
  /\ efConstruction' \in {1, MaxEf}
  /\ efSearch' \in {MaxEfSearch, DefaultEfSearch}
  /\ metric' = "cosine"
  /\ d' = Null
  /\ entryPointId' = NoEntry
  /\ levelMax' = EmptyLevel
  /\ nodes' = EmptyMap
  /\ probs' = set_probs(M')
  /\ db' = "open"
  /\ ret' = Ret("create", "ok")
  /\ UNCHANGED <<json, build, store>>

DbNext ==
  \/ DbAddPoint
  \/ Close
  \/ SaveIndex
  \/ LoadIndex
  \/ DeleteIndex
  \/ DeleteDBDone
  \/ OpenDBDone
  \/ Reopen

SpecDB == DbInit /\ [][DbNext]_vars

(***************************************************************************)
(* Properties of HNSWWithDB.                                               *)
(***************************************************************************)
\* C17: on an HNSWWithDB whose db is null each of saveIndex(), loadIndex(),
\* deleteIndex() and close() fails with the 'Database is not initialized'
\* error and leaves the in-memory graph unchanged.
C17_NotInitialized ==
  [][(/\ db = "null"
      /\ ret.status = "ok"
      /\ ret'.op \in {"saveIndex", "loadIndex", "deleteIndex", "close"})
     => /\ ret'.status = NotInitialized
        /\ UNCHANGED graphVars]_vars

\* C18: when deleteIndex() resolves the database has been deleted and
\* re-opened: db is non-null, the store holds no snapshot, deleteIndex has
\* not modified the in-memory graph, and the call issued next finds the
\* instance initialized: saveIndex() succeeds, loadIndex() is a no-op that
\* leaves the graph unchanged.
C18_DeleteIndexResolved ==
  [][/\ (ret'.op = "deleteIndex") => UNCHANGED graphVars
     /\ (ret'.op = "deleteIndex" /\ ret'.status = "ok") =>
          /\ db' = "open"
          /\ store' = <<>>
     /\ (ret.op = "deleteIndex" /\ ret.status = "ok") =>
          /\ db = "open"
          /\ ret'.op = "saveIndex" =>
               /\ ret'.status = "ok"
               /\ store' = << toJSON(M, efConstruction, efSearch, metric, d, Graph) >>
          /\ ret'.op = "loadIndex" =>
               /\ ret'.status = "ok"
               /\ UNCHANGED graphVars]_vars

\* deleteIndex() has resolved on an index that holds nodes.
C18_Witness ==
  /\ ret.op = "deleteIndex"
  /\ ret.status = "ok"
  /\ Cardinality(DOMAIN nodes) = DbMaxNodes
  /\ db = "open"
  /\ store = <<>>

\* C19: after saveIndex() an instance opened on the same dbName that calls
\* loadIndex() holds the saved graph (M, efConstruction, efSearch, metric,
\* d, levelMax, entryPointId, nodes and neighbor lists) whatever its
\* constructor arguments were, and answers every searchKNN as the saved
\* index does; saveIndex() replaces the single stored snapshot.
C19_PersistenceRoundTrip ==
  [][/\ (ret'.op = "loadIndex" /\ ret'.status = "ok" /\ store # <<>>) =>
          LET saved == store[1]
              savedGraph == [nodes |-> saved.nodes,
                             entryPointId |-> saved.entryPointId,
                             levelMax |-> saved.levelMax]
          IN  /\ M' = saved.M
              /\ efConstruction' = saved.efConstruction
              /\ efSearch' = saved.efSearch
              /\ metric' = saved.metric
              /\ d' = saved.d
              /\ levelMax' = saved.levelMax
              /\ entryPointId' = saved.entryPointId
              /\ nodes' = saved.nodes
              /\ \A in \in SearchInputs :
                   searchKNN([nodes |-> nodes', entryPointId |-> entryPointId',
                              levelMax |-> levelMax'],
                             metric', efSearch', efConstruction',
                             in.query, in.k, in.options)
                     = searchKNN(savedGraph, saved.metric, saved.efSearch,
                                 saved.efConstruction, in.query, in.k, in.options)
     /\ (ret'.op = "saveIndex" /\ ret'.status = "ok") =>
          store' = << toJSON(M, efConstruction, efSearch, metric, d, Graph) >>]_vars

(***************************************************************************)
(* Recall against the beam width.  On a graph built by addPoint calls the  *)
(* caller runs searchKNN(q, k, {efSearch: ef}) for one query and one k     *)
(* with every beam width of BeamWidths; ret.results[ef] is the answer      *)
(* with beam width ef.                                                     *)
(***************************************************************************)
BeamWidths == 1..(MaxEfSearch + 1)

RecallQuery ==
  /\ Idle
  /\ DOMAIN nodes # {}
  /\ \E query \in Queries(metric), k \in 1..MaxK :
       ret' = [Ret("recall", "done") EXCEPT
                 !.query = query, !.k = k,
                 !.results =
                    [ef \in BeamWidths |->
                       searchKNN(Graph, metric, efSearch, efConstruction,
                                 query, k, <<ef>>).results]]
  /\ UNCHANGED <<probs, graphVars, json, build, dbVars>>

SpecRecall == Init /\ [][AddPoint \/ RecallQuery]_vars

\* The true k nearest neighbors of ret.query: the nodes with fewer than k
\* nodes scoring strictly higher.
TrueNeighbors ==
  {id \in DOMAIN nodes :
     Cardinality({other \in DOMAIN nodes :
                    Sim(metric, ret.query, nodes[other].vector)
                      > Sim(metric, ret.query, nodes[id].vector)}) < ret.k}

\* The number of true nearest neighbors in the answer with beam width ef.
Hits(ef) ==
  Cardinality({ret.results[ef][i].id : i \in 1..Len(ret.results[ef])}
              \cap TrueNeighbors)

Inserted == ret'.op = "addPoint" /\ ret'.status = "ok"

\* C21: an existing edge is removed only when a neighbor list overflows.
\* One addPoint call installs at most one new id per list, and a list only
\* shrinks otherwise: if the call drops b from a's layer-l list, then a's
\* list (pruned) or b's list (pruned, a removed from it, b removed from a's
\* by the reciprocal removal) held M entries before the call.
C21_RemoveOnlyOnOverflow ==
  [][Inserted =>
       \A a \in DOMAIN nodes, b \in DOMAIN nodes :
          \A l \in Layers(a) :
             (Linked(a, b, l) /\ ~Contains(neighborsAt(nodes'[a], l), b)) =>
                \/ Len(neighborsAt(nodes[a], l)) >= M
                \/ Len(neighborsAt(nodes[b], l)) >= M]_vars

(***************************************************************************)
(* Insertions into an index with room for three neighbors.  The vectors    *)
(* are a point and three of its neighbors on the integer grid, under the   *)
(* euclidean metric: the three are equally far from the point and farther  *)
(* from each other, so a list can fill up.  Vectors may repeat.  ret is    *)
(* the last addPoint call; ret.results holds the node map it found.        *)
(***************************************************************************)
OrderVecs == { <<2, 2>>, <<2, 3>>, <<1, 2>>, <<2, 1>> }

\* new HNSW(MaxM + 1, MaxEf, null, 'euclidean', MaxEfSearch)
OrderInit ==
  /\ M = MaxM + 1
  /\ efConstruction = MaxEf
  /\ efSearch = MaxEfSearch
  /\ metric = "euclidean"
  /\ d = Null
  /\ entryPointId = NoEntry
  /\ levelMax = EmptyLevel
  /\ nodes = EmptyMap
  /\ json = <<>>
  /\ build = <<>>
  /\ NoDatabase
  /\ probs = set_probs(M)
  /\ ret = Ret("new", "ok")

GridAddPoint(maxNodes) ==
  /\ Idle
  /\ Cardinality(DOMAIN nodes) < maxNodes
  /\ \E vector \in OrderVecs, level \in Levels :
       \E out \in {addPoint(M, metric, efConstruction, d, Graph, FreshId, vector, level)} :
         /\ d' = out.d
         /\ nodes' = out.g.nodes
         /\ entryPointId' = out.g.entryPointId
         /\ levelMax' = out.g.levelMax
         /\ ret' = [Ret("addPoint", out.status) EXCEPT
                      !.id = FreshId, !.vector = vector, !.results = <<nodes>>]
  /\ UNCHANGED <<probs, M, efConstruction, efSearch, metric, json, build, dbVars>>

OrderAddPoint == GridAddPoint(MaxOrderNodes)

SpecOrder == OrderInit /\ [][OrderAddPoint]_vars

\* The scores of the entries of a list to the vector of its owner.
listScores(ns, met, owner, list) ==
  [i \in 1..Len(list) |-> Sim(met, ns[owner].vector, ns[list[i]].vector)]

\* C22: after any sequence of insertions every neighbor list is stored in
\* non-increasing order of similarity to the owning node's vector (the
\* least similar neighbor is last), the lists that removeReciprocalLinks
\* deleted an entry from included.
C22_ListsSorted ==
  \A id \in DOMAIN nodes :
     \A l \in Layers(id) :
        \A i \in 1..(Len(neighborsAt(nodes[id], l)) - 1) :
           listScores(nodes, metric, id, neighborsAt(nodes[id], l))[i]
             >= listScores(nodes, metric, id, neighborsAt(nodes[id], l))[i + 1]

\* The last insertion has taken an entry out of a list that does not hold
\* the new id (the entry, or the new id after it, went by
\* removeReciprocalLinks), and the list still holds two entries of different
\* score.
C22_Witness ==
  /\ ret.op = "addPoint"
  /\ ret.status = "ok"
  /\ \E a \in DOMAIN ret.results[1] :
       \E l \in Layers(a) :
          /\ \E b \in DOMAIN ret.results[1] :
               /\ Contains(neighborsAt(ret.results[1][a], l), b)
               /\ ~Linked(a, b, l)
          /\ ~Linked(a, ret.id, l)
          /\ Len(neighborsAt(nodes[a], l)) >= 2
          /\ listScores(nodes, metric, a, neighborsAt(nodes[a], l))[1]
               > listScores(nodes, metric, a, neighborsAt(nodes[a], l))[2]

(***************************************************************************)
(* searchLayer and greedySearch as functions of the graph and their        *)
(* arguments.  The graph is one that addPoint calls have built (cycles and *)
(* nodes of equal score included); the call is made with a query, a node   *)
(* of the graph, a layer the node is on and, for searchLayer, a beam       *)
(* width.  ret is the call with what it returned, for searchLayer also the *)
(* ids it scored.                                                          *)
(***************************************************************************)
LayerQueries == { <<1, 2>>, <<3, 3>> }

LayerAddPoint == GridAddPoint(MaxLayerNodes)

SearchLayer ==
  /\ Idle
  /\ \E query \in LayerQueries, entryNode \in DOMAIN nodes, ef \in 1..MaxEf :
       \E level \in 0..nodes[entryNode].level :
          ret' = [op |-> "searchLayer", status |-> "done", query |-> query,
                  entryNode |-> entryNode, level |-> level, ef |-> ef,
                  results |-> searchLayer(nodes, metric, query, entryNode, level, ef),
                  scored |-> searchState(nodes, metric, query, entryNode,
                                         level, ef).scored]
  /\ UNCHANGED <<probs, graphVars, json, build, dbVars>>

GreedySearch ==
  /\ Idle
  /\ \E query \in LayerQueries, entryNode \in DOMAIN nodes :
       \E level \in 0..nodes[entryNode].level :
          ret' = [op |-> "greedySearch", status |-> "done", query |-> query,
                  entryNode |-> entryNode, level |-> level,
                  results |-> greedySearch(nodes, metric, query, entryNode, level)]
  /\ UNCHANGED <<probs, graphVars, json, build, dbVars>>

SpecLayer == OrderInit /\ [][LayerAddPoint \/ SearchLayer \/ GreedySearch]_vars

\* The nodes a path of layer-l edges leads to from the nodes of S.
RECURSIVE ReachableFrom(_, _)
ReachableFrom(S, l) ==
  IF \A a \in S : \A b \in DOMAIN nodes : Linked(a, b, l) => b \in S THEN S
  ELSE ReachableFrom(S \cup {b \in DOMAIN nodes : \E a \in S : Linked(a, b, l)}, l)

QueryScore(id) == Sim(metric, ret.query, nodes[id].vector)

\* C23: searchLayer(q, ep, l, ef) with ef >= 1 returns (it terminates)
\* having scored each node at most once; it returns between 1 and ef
\* pairwise distinct nodes, each reachable from ep through layer-l edges, in
\* non-increasing order of score against q, and every node it scored but
\* did not return scores no higher than every node it returned.
C23_SearchLayer ==
  ret.op = "searchLayer" =>
    /\ Len(ret.results) >= 1
    /\ Len(ret.results) <= ret.ef
    /\ \A i, j \in 1..Len(ret.results) : ret.results[i] = ret.results[j] => i = j
    /\ \A i \in 1..Len(ret.results) :
         ret.results[i] \in ReachableFrom({ret.entryNode}, ret.level)
    /\ \A i \in 1..(Len(ret.results) - 1) :
         QueryScore(ret.results[i]) >= QueryScore(ret.results[i + 1])
    /\ \A i, j \in 1..Len(ret.scored) : ret.scored[i] = ret.scored[j] => i = j
    /\ \A i \in 1..Len(ret.results) : Contains(ret.scored, ret.results[i])
    /\ \A i \in 1..Len(ret.scored) :
         ~Contains(ret.results, ret.scored[i]) =>
            \A j \in 1..Len(ret.results) :
               QueryScore(ret.scored[i]) <= QueryScore(ret.results[j])

\* A search of beam width 2 on a graph of MaxLayerNodes nodes has scored
\* more nodes than it returned and has left the entry node out.
C23_Witness ==
  /\ ret.op = "searchLayer"
  /\ Size = MaxLayerNodes
  /\ ret.ef = 2
  /\ Len(ret.results) = 2
  /\ Len(ret.scored) > 2
  /\ ~Contains(ret.results, ret.entryNode)

\* C24: greedySearch(q, entry, l) returns (it terminates, on graphs with
\* cycles and equal scores too) a node r reachable from entry on layer l
\* with score(q, r) >= score(q, entry) such that no layer-l neighbor of r
\* scores strictly higher than r.
C24_GreedyLocalMaximum ==
  ret.op = "greedySearch" =>
    /\ ret.results \in ReachableFrom({ret.entryNode}, ret.level)
    /\ QueryScore(ret.results) >= QueryScore(ret.entryNode)
    /\ \A b \in DOMAIN nodes :
         Linked(ret.results, b, ret.level) =>
            QueryScore(b) <= QueryScore(ret.results)

\* The search has left the entry node for a node that is not its neighbor,
\* on a graph with a cycle of three nodes, two of them of equal score.
C24_Witness ==
  /\ ret.op = "greedySearch"
  /\ ret.results # ret.entryNode
  /\ ~Linked(ret.entryNode, ret.results, ret.level)
  /\ \E a, b, c \in DOMAIN nodes :
       /\ a # b /\ b # c /\ a # c
       /\ Linked(a, b, ret.level) /\ Linked(b, c, ret.level)
       /\ Linked(c, a, ret.level)
       /\ QueryScore(a) = QueryScore(b)

(***************************************************************************)
(* BinaryHeap on its own: a heap with one of the two comparators of        *)
(* searchLayer, on which the caller runs push, pop and peek in any order.  *)
(* ret is the heap and its last call: items (the array), returned (what    *)
(* pop or peek returned), pushes and pops (the calls of push, and of pop   *)
(* that returned an element).  Two of the entries have the same score.     *)
(***************************************************************************)
HeapEntries ==
  { [id |-> 1, score |-> sc] : sc \in 1..3 } \cup { [id |-> 2, score |-> 2] }

\* new BinaryHeap(compare)
HeapInit ==
  /\ M = MaxM
  /\ efConstruction = MaxEf
  /\ efSearch = MaxEfSearch
  /\ metric = "cosine"
  /\ d = Null
  /\ nodes = EmptyMap
  /\ entryPointId = NoEntry
  /\ levelMax = EmptyLevel
  /\ json = <<>>
  /\ build = <<>>
  /\ NoDatabase
  /\ probs = set_probs(M)
  /\ \E kind \in {"candidates", "best"} :
       ret = [op |-> "new", status |-> "ok", kind |-> kind, items |-> <<>>,
              returned |-> <<>>, pushes |-> 0, pops |-> 0]

HeapPush ==
  /\ ret.pushes < MaxPushes
  /\ \E item \in HeapEntries :
       ret' = [ret EXCEPT !.op = "push", !.items = push(ret.kind, @, item),
                          !.returned = <<item>>, !.pushes = @ + 1]
  /\ UNCHANGED <<probs, graphVars, json, build, dbVars>>

HeapPop ==
  /\ ret' = [ret EXCEPT !.op = "pop", !.items = pop(ret.kind, @),
                        !.returned = peek(ret.items),
                        !.pops = IF Len(ret.items) = 0 THEN @ ELSE @ + 1]
  /\ UNCHANGED <<probs, graphVars, json, build, dbVars>>

HeapPeek ==
  /\ ret' = [ret EXCEPT !.op = "peek", !.returned = peek(ret.items)]
  /\ UNCHANGED <<probs, graphVars, json, build, dbVars>>

SpecHeap == HeapInit /\ [][HeapPush \/ HeapPop \/ HeapPeek]_vars

Count(seq, x) == Cardinality({i \in 1..Len(seq) : seq[i] = x})

\* C25: after any sequence of push and pop the array is in heap order
\* (cmp(child, parent) <= 0 at every index) and its size is pushes minus
\* successful pops; peek and pop return an element e with cmp(e, x) >= 0 for
\* every stored x; pop removes exactly one occurrence of it and nothing
\* else, push adds exactly one occurrence of its argument, peek changes
\* nothing; pop and peek on an empty heap return undefined and leave it
\* empty.
C25_BinaryHeap ==
  [][/\ \A i \in 2..Len(ret'.items) :
          compare(ret'.kind, ret'.items[i], ret'.items[i \div 2]) <= 0
     /\ Len(ret'.items) = ret'.pushes - ret'.pops
     /\ ret'.op \in {"pop", "peek"} =>
          IF Len(ret.items) = 0
            THEN ret'.returned = <<>> /\ ret'.items = <<>>
            ELSE /\ Len(ret'.returned) = 1
                 /\ Contains(ret.items, ret'.returned[1])
                 /\ \A i \in 1..Len(ret.items) :
                      compare(ret.kind, ret'.returned[1], ret.items[i]) >= 0
     /\ ret'.op = "peek" => ret'.items = ret.items
     /\ ret'.op = "pop" =>
          \A x \in HeapEntries :
             Count(ret'.items, x) =
               Count(ret.items, x) - (IF ret'.returned = <<x>> THEN 1 ELSE 0)
     /\ ret'.op = "push" =>
          \A x \in HeapEntries :
             Count(ret'.items, x) =
               Count(ret.items, x) + (IF ret'.returned = <<x>> THEN 1 ELSE 0)]_vars

\* pop has returned an entry of a heap of four or more, and left an equal
\* entry and one of the same score in the heap.
C25_Witness ==
  /\ ret.op = "pop"
  /\ Len(ret.items) >= 3
  /\ Len(ret.returned) = 1
  /\ Contains(ret.items, ret.returned[1])
  /\ \E i \in 1..Len(ret.items) :
       /\ ret.items[i] # ret.returned[1]
       /\ ret.items[i].score = ret.returned[1].score

(***************************************************************************)
(* Properties of the index that involve the ids and the levels.            *)
(***************************************************************************)
\* C26: searchKNN returns an empty list only when the graph is empty or
\* k <= 0: on a graph of at least one node, whatever ids the caller chose
\* (negative ones included), searchKNN(q, k) with k >= 1 returns at least
\* one result.
C26_NonEmptyResult ==
  (Searched /\ DOMAIN nodes # {} /\ ret.k >= 1) => Len(ret.results) >= 1

\* C27: no node is orphaned: with M >= 2 and at least two nodes, every
\* node has at least one layer-0 neighbor and is in the layer-0 list of at
\* least one other node.
C27_NoOrphan ==
  (M >= 2 /\ Size >= 2) =>
    \A id \in DOMAIN nodes :
       /\ Len(neighborsAt(nodes[id], 0)) >= 1
       /\ \E other \in DOMAIN nodes \ {id} : Linked(other, id, 0)

(***************************************************************************)
(* addPoint with the level selectLevel() draws from probs.  The draw r of  *)
(* Math.random() is a multiple of 1/ProbUnit that lies on no boundary      *)
(* between two levels; on these the model's probs (units of 1e-9, rounded  *)
(* down) and the program's select the same level.                          *)
(***************************************************************************)
Draws == {0, ProbUnit \div 2 + 2, (4 * ProbUnit) \div 5}

\* r in the units of probs.
drawn(r) == r * (ProbResolution \div ProbUnit)

DrawnAddPoint ==
  /\ Idle
  /\ Cardinality(DOMAIN nodes) < MaxNodes
  /\ \E vector \in Vecs(metric), r \in Draws :
       \E level \in {selectLevel(probs, drawn(r))} :
       \E out \in {addPoint(M, metric, efConstruction, d, Graph, FreshId,
                            vector, level)} :
         /\ d' = out.d
         /\ nodes' = out.g.nodes
         /\ entryPointId' = out.g.entryPointId
         /\ levelMax' = out.g.levelMax
         /\ ret' = [Ret("addPoint", out.status) EXCEPT !.id = FreshId, !.vector = vector]
  /\ UNCHANGED <<probs, M, efConstruction, efSearch, metric, json, build, dbVars>>

SpecProbs == Init /\ [][DrawnAddPoint]_vars

\* C28: for every positive M the constructor accepts (M = 1 included) the
\* precomputed probs is non-empty and every node created by addPoint has a
\* level >= 0, so it has at least the layer-0 neighbor list, and a node
\* inserted into a graph that holds other nodes has a layer-0 neighbor.
C28_LevelsFromProbs ==
  /\ probs # <<>>
  /\ \A id \in DOMAIN nodes :
       /\ nodes[id].level >= 0
       /\ Len(nodes[id].neighbors) >= 1
  /\ (ret.op = "addPoint" /\ ret.status = "ok" /\ Size >= 2) =>
       Len(neighborsAt(nodes[ret.id], 0)) >= 1

(***************************************************************************)
(* loadIndex against HNSW.fromJSON of the stored snapshot.                  *)
(***************************************************************************)

\* C29: after loadIndex() has loaded a snapshot the instance is the one
\* HNSW.fromJSON(snapshot) returns: M, efConstruction, efSearch, metric, d,
\* levelMax, entryPointId and nodes are the snapshot's, and probs is the one
\* derived from the loaded M, so that selectLevel gives a later addPoint the
\* level it gives on HNSW.fromJSON(snapshot), for every draw.
C29_LoadIndexLikeFromJSON ==
  (ret.op = "loadIndex" /\ ret.status = "ok" /\ store # <<>>) =>
    \A hnsw \in {fromJSON(store[1])} :
      /\ M = hnsw.M
      /\ efConstruction = hnsw.efConstruction
      /\ efSearch = hnsw.efSearch
      /\ metric = hnsw.metric
      /\ d = hnsw.d
      /\ levelMax = hnsw.levelMax
      /\ entryPointId = hnsw.entryPointId
      /\ nodes = hnsw.nodes
      /\ probs = set_probs(M)
      /\ \A r \in Draws :
           selectLevel(probs, drawn(r)) = selectLevel(hnsw.probs, drawn(r))

(***************************************************************************)
(* buildIndex rejected by one of its addPoint calls.                       *)
(***************************************************************************)
BuildFailed == BuildStepTaken /\ ret'.status \notin {"ok", "pending"}

\* The error addPoint throws for item j (counted from 0) of data, given that
\* the items before it have been inserted.
rejection(data, j) ==
  IF Len(data[j + 1].vector) # Len(data[1].vector) THEN "DimensionMismatch"
  ELSE IF \E h \in 1..j : data[h].id = data[j + 1].id THEN "DuplicateId"
  ELSE "ok"

\* onProgress(c, n) for c = p, 2p, ... up to j.
progressUpTo(n, p, j) == [h \in 1..(j \div p) |-> [current |-> h * p, total |-> n]]

====
